---- MODULE Spec2Model ----
(***************************************************************************)
(* Model of the p2p-node-handshake crate: the bounded version handshake    *)
(* (handshake_manager.rs), the callers that drive it (config.rs `run`,     *)
(* the peer loops of main.rs / main_more_err_nadling.rs) and the ledger    *)
(* of handshake statuses.                                                  *)
(***************************************************************************)
EXTENDS Integers, Sequences, FiniteSets, TLC

\* ---------------------------------------------------------------- bounds
NumPeers == 2          \* number of candidate peer addresses
TickMs == 1000         \* granularity of the model clock, in milliseconds

\* ------------------------------------------------------ program constants
DefaultTimeoutMs == 2000

MagicBitcoin == "bitcoin"
MagicOther == "testnet"

Addrs == 1..NumPeers

\* ------------------------------------------------------------ Result<T,E>
Ok(v) == [tag |-> "Ok", val |-> v]
Err(e) == [tag |-> "Err", val |-> e]
None == [tag |-> "None", val |-> "none"]

IsOkTrue(r) == r.tag = "Ok" /\ r.val = TRUE

\* ------------------------------------------------------------- wire input
\* What the peer puts on the connection for one read of the local side: an
\* envelope (possibly cut short, possibly with a wrong checksum or a foreign
\* network magic) or nothing at all before closing (NoBytes).
Envelope ==
    [magic : {MagicBitcoin, MagicOther},
     command : {"version", "verack"},
     checksum_ok : BOOLEAN,
     complete : BOOLEAN]

NoBytes == [magic |-> "", command |-> "", checksum_ok |-> FALSE, complete |-> FALSE]

WireInput == Envelope \cup {NoBytes}

\* Payload variant chosen by the command string of a decoded envelope.
PayloadOf(command) ==
    CASE command = "version" -> "Version"
      [] command = "verack" -> "Verack"
      [] OTHER -> "Unknown"

\* RawNetworkMessage::consensus_decode on one wire input: an incomplete
\* stream is an I/O error, a checksum mismatch is a decode error, everything
\* else yields the message with the magic as read (the magic is returned to
\* the caller, not compared with anything).
consensus_decode(w) ==
    IF ~w.complete THEN [ok |-> FALSE, magic |-> "", payload |-> "Io"]
    ELSE IF ~w.checksum_ok THEN [ok |-> FALSE, magic |-> "", payload |-> "InvalidChecksum"]
    ELSE [ok |-> TRUE, magic |-> w.magic, payload |-> PayloadOf(w.command)]


\* Values of crate::constants::PROTOCOL_VERSION (a u32 fixed for a build).
ProtocolVersions == {70001, 70015, 70016}

\* chrono::Utc::now().timestamp() and rand::thread_rng().gen().
Timestamps == {1700000000, 1700000001}
Nonces == {7, 2147483647}

ServiceFlagsNone == 0

\* The fields of the Version message a peer sends.  exec_handshake decodes
\* them all; three messages that differ in every field, or in the protocol
\* version alone, stand for what a peer can send.  Both nonces a local
\* Version can carry occur among them.
RemoteVersions ==
    {[version |-> 70015, services |-> 0, timestamp |-> 1700000000,
      receiver |-> 1, sender |-> 2, nonce |-> 7,
      user_agent |-> "/Satoshi:25.0.0/", start_height |-> 0],
     [version |-> 70001, services |-> 1033, timestamp |-> 1700000001,
      receiver |-> 2, sender |-> 1, nonce |-> 2147483647,
      user_agent |-> "/other:0.1/", start_height |-> 800000],
     [version |-> 209, services |-> 0, timestamp |-> 1700000000,
      receiver |-> 1, sender |-> 2, nonce |-> 7,
      user_agent |-> "/Satoshi:25.0.0/", start_height |-> 0]}

\* The values that vary from run to run without any caller reading them: the
\* nonce of the local Version and the fields of the remote Version.  Where
\* exec_handshake is run on its own ("exec") they range over all of the
\* above; under the callers one value of each is kept.
LocalNonces(drv) == IF drv = "exec" THEN Nonces ELSE {7}
RemoteVersionsFor(drv) ==
    IF drv = "exec" THEN RemoteVersions
    ELSE {v \in RemoteVersions : v.version = 70015}

\* ------------------------------------------------------------------ state
VARIABLES
    driver,     \* which caller drives the handshakes: "run" (config.rs) or "main" (peer loop)
    seeds,      \* the candidate peer addresses, in the order they are tried
    i,          \* position in seeds of the current attempt
    pc,         \* position of the caller: "start", "await", "handle", "done"
    elapsed,    \* milliseconds the pending timeout(..) has waited (0 when none is pending)
    outcome,    \* per attempt: what establish_handshake returned to the caller
    statuses,   \* HandshakeManager.statuses: address -> None | Ok(bool)
    spawned,    \* per attempt: how many tasks were spawned for it
    tpc,        \* per task: the blocking call exec_handshake is in
    result,     \* per task: the value exec_handshake returned
    conn,       \* per task: the TCP connection: "none", "open", "closed"
    sent,       \* per task: commands of the envelopes written so far
    rx,         \* per task: outcomes of consensus_decode so far
    log,        \* per task: the completed steps, in order
    vmsg,       \* per task: nonce of the local Version written, remote Version decoded
    calls,      \* the record_handshake calls made on one manager, in order
    seed,       \* the calls of dns_seed_at_index: last index, last result, first results
    lookup,     \* the loop of lookup_active_nodes: position, addresses so far, resolver answers
    cli,        \* one call of config.rs run: command, arguments, position, locals, result
    codec       \* one Version message: inputs, message built, bytes, message decoded

vars == <<driver, seeds, i, pc, elapsed, outcome, statuses, spawned,
          tpc, result, conn, sent, rx, log, vmsg, calls, seed, lookup, cli, codec>>

\* The variables of the operations that are exercised on their own.
apiVars == <<calls, seed, lookup, cli, codec>>

Idle == [pc |-> "idle"]

ApiIdle ==
    /\ calls = <<>>
    /\ seed = Idle
    /\ lookup = Idle
    /\ cli = Idle
    /\ codec = Idle

callerVars == <<driver, seeds, i, pc, elapsed, outcome, statuses, spawned>>
taskVars == <<tpc, result, conn, sent, rx, log, vmsg>>

Attempts == 1..NumPeers

\* No Version message written or decoded yet.
NoVersions == [nonce |-> None, remote |-> None]

\* HandshakeManager::default(): timeout_ms = 2000, statuses empty.
timeout_ms == DefaultTimeoutMs

Init ==
    /\ \/ driver = "main" /\ seeds = [k \in 1..NumPeers |-> k]
       \/ driver = "run" /\ seeds \in {<<a>> : a \in Addrs}
    /\ i = 1
    /\ pc = "start"
    /\ elapsed = 0
    /\ outcome = [k \in Attempts |-> None]
    /\ statuses = [a \in Addrs |-> None]
    /\ spawned = [k \in Attempts |-> 0]
    /\ tpc = [k \in Attempts |-> "unspawned"]
    /\ result = [k \in Attempts |-> None]
    /\ conn = [k \in Attempts |-> "none"]
    /\ sent = [k \in Attempts |-> <<>>]
    /\ rx = [k \in Attempts |-> <<>>]
    /\ log = [k \in Attempts |-> <<>>]
    /\ vmsg = [k \in Attempts |-> NoVersions]
    /\ ApiIdle

\* No handshake is driven: the manager is new and no task exists.
HandshakeIdle ==
    /\ driver = "none"
    /\ seeds = <<>>
    /\ i = 1
    /\ pc = "done"
    /\ elapsed = 0
    /\ outcome = [k \in Attempts |-> None]
    /\ statuses = [a \in Addrs |-> None]
    /\ spawned = [k \in Attempts |-> 0]
    /\ tpc = [k \in Attempts |-> "unspawned"]
    /\ result = [k \in Attempts |-> None]
    /\ conn = [k \in Attempts |-> "none"]
    /\ sent = [k \in Attempts |-> <<>>]
    /\ rx = [k \in Attempts |-> <<>>]
    /\ log = [k \in Attempts |-> <<>>]
    /\ vmsg = [k \in Attempts |-> NoVersions]

\* ------------------------------------------------- exec_handshake (task k)
TaskDone(k) == tpc[k] = "done"
TaskRunning(k) == tpc[k] \notin {"unspawned", "done"}

\* Faulty variant of NextCall: the local Verack is written right after the
\* local Version, before anything is read.
NextCallVerackFirst(call) ==
    CASE call = "connect" -> "write_version"
      [] call = "write_version" -> "write_verack"
      [] call = "write_verack" -> "read_version"
      [] call = "read_version" -> "read_verack"
      [] OTHER -> "done"

\* The blocking call exec_handshake goes on to once `call` has succeeded, in
\* the order of its statements.
NextCall(call) ==
    CASE call = "connect" -> "write_version"
      [] call = "write_version" -> "read_version"
      [] call = "read_version" -> "write_verack"
      [] call = "write_verack" -> "read_verack"
      [] OTHER -> "done"

\* Faulty variant of IsVersion: the first payload is not matched at all.
IsAnyPayload(payload) == TRUE

\* The match on the first decoded payload: only NetworkMessage::Version passes.
IsVersion(payload) == payload = "Version"

\* The match on the second decoded payload: only NetworkMessage::Verack passes.
IsVerack(payload) == payload = "Verack"

\* The state of the stream once exec_handshake has returned: `stream` and its
\* clone `read_stream` go out of scope, which closes an open connection.
StreamAfterReturn(c) == IF c = "open" THEN "closed" ELSE c

\* Faulty variant of Return: after an error exec_handshake starts over with
\* a new connection instead of returning.
ReturnRetries(k, res) ==
    IF res.tag = "Err"
    THEN /\ tpc' = [tpc EXCEPT ![k] = "connect"]
         /\ result' = result
    ELSE /\ tpc' = [tpc EXCEPT ![k] = "done"]
         /\ result' = [result EXCEPT ![k] = res]

\* exec_handshake returns res: the task is finished, its stream dropped.
Return(k, res) ==
    /\ tpc' = [tpc EXCEPT ![k] = "done"]
    /\ result' = [result EXCEPT ![k] = res]

\* TcpStream::connect, then try_clone / local_addr / peer_addr.
Connect(k) ==
    /\ tpc[k] = "connect"
    /\ \/ /\ tpc' = [tpc EXCEPT ![k] = NextCall("connect")]
          /\ conn' = [conn EXCEPT ![k] = "open"]
          /\ log' = [log EXCEPT ![k] = Append(@, "connect")]
          /\ UNCHANGED result
       \/ /\ Return(k, Err("ConnectFailed"))
          /\ conn' = [conn EXCEPT ![k] = StreamAfterReturn(@)]
          /\ UNCHANGED log
       \/ /\ Return(k, Err("StreamSetupFailed"))
          /\ conn' = [conn EXCEPT ![k] = StreamAfterReturn("open")]
          /\ log' = [log EXCEPT ![k] = Append(@, "connect")]
    /\ UNCHANGED <<sent, rx, vmsg>>
    /\ UNCHANGED callerVars
    /\ UNCHANGED apiVars

\* stream.write_all(version_message_bytes)
WriteVersion(k) ==
    /\ tpc[k] = "write_version"
    /\ \/ /\ tpc' = [tpc EXCEPT ![k] = NextCall("write_version")]
          /\ sent' = [sent EXCEPT ![k] = Append(@, "version")]
          /\ log' = [log EXCEPT ![k] = Append(@, "write_version")]
          /\ \E nonce \in LocalNonces(driver) :
                vmsg' = [vmsg EXCEPT ![k].nonce = [tag |-> "Some", val |-> nonce]]
          /\ UNCHANGED <<result, conn>>
       \/ /\ Return(k, Err("SendVersionFailed"))
          /\ conn' = [conn EXCEPT ![k] = StreamAfterReturn(@)]
          /\ UNCHANGED <<sent, log, vmsg>>
    /\ UNCHANGED rx
    /\ UNCHANGED callerVars
    /\ UNCHANGED apiVars

\* The payload of a decoded envelope with what it carries: the fields for a
\* Version, nothing for the others.
NetworkMessage(payload, fields) ==
    [tag |-> payload, val |-> IF payload = "Version" THEN fields ELSE "none"]

\* The protocol version a payload carries; only a Version carries one.
protocol_version_of(message) ==
    IF message.tag = "Version" THEN message.val.version ELSE 0

\* Faulty variant of match_version_remote: a Version carrying the nonce of
\* the local Version is taken for a connection to self and rejected.
match_version_remote_checks_nonce(message, nonce) ==
    IF IsVersion(message.tag)
    THEN IF message.tag = "Version" /\ message.val.nonce = nonce
         THEN Err("WrongProtocol")
         ELSE Ok(protocol_version_of(message))
    ELSE Err("WrongProtocol")

\* The match on the first decoded payload, with the nonce of the local
\* Version at hand: a Version gives its protocol version, which is only
\* logged; anything else is the wrong-protocol error.
match_version_remote(message, nonce) ==
    IF IsVersion(message.tag)
    THEN Ok(protocol_version_of(message))
    ELSE Err("WrongProtocol")

\* RawNetworkMessage::consensus_decode, then the match on the payload.
ReadVersion(k) ==
    /\ tpc[k] = "read_version"
    /\ \E w \in WireInput :
        LET d == consensus_decode(w) IN
        /\ rx' = [rx EXCEPT ![k] = Append(@, d)]
        /\ log' = [log EXCEPT ![k] = Append(@, "read")]
        /\ IF ~d.ok
           THEN /\ Return(k, Err("DecodeVersionFailed"))
                /\ conn' = [conn EXCEPT ![k] = StreamAfterReturn(@)]
                /\ UNCHANGED vmsg
           ELSE \E fields \in IF d.payload = "Version" THEN RemoteVersionsFor(driver)
                               ELSE {"none"} :
                LET message_version_remote == NetworkMessage(d.payload, fields)
                    protocol_version_remote ==
                        match_version_remote(message_version_remote, vmsg[k].nonce.val)
                IN
                /\ vmsg' = [vmsg EXCEPT ![k].remote =
                                [tag |-> "Some", val |-> message_version_remote]]
                /\ IF protocol_version_remote.tag = "Ok"
                   THEN /\ tpc' = [tpc EXCEPT ![k] = NextCall("read_version")]
                        /\ UNCHANGED <<result, conn>>
                   ELSE /\ Return(k, protocol_version_remote)
                        /\ conn' = [conn EXCEPT ![k] = StreamAfterReturn(@)]
    /\ UNCHANGED sent
    /\ UNCHANGED callerVars
    /\ UNCHANGED apiVars

\* stream.write_all(message_verack_bytes)
WriteVerack(k) ==
    /\ tpc[k] = "write_verack"
    /\ \/ /\ tpc' = [tpc EXCEPT ![k] = NextCall("write_verack")]
          /\ sent' = [sent EXCEPT ![k] = Append(@, "verack")]
          /\ log' = [log EXCEPT ![k] = Append(@, "write_verack")]
          /\ UNCHANGED <<result, conn>>
       \/ /\ Return(k, Err("SendVerAckFailed"))
          /\ conn' = [conn EXCEPT ![k] = StreamAfterReturn(@)]
          /\ UNCHANGED <<sent, log>>
    /\ UNCHANGED <<rx, vmsg>>
    /\ UNCHANGED callerVars
    /\ UNCHANGED apiVars

\* The second consensus_decode, the match on its payload, and Ok(true).
ReadVerack(k) ==
    /\ tpc[k] = "read_verack"
    /\ \E w \in WireInput :
        LET d == consensus_decode(w) IN
        /\ rx' = [rx EXCEPT ![k] = Append(@, d)]
        /\ log' = [log EXCEPT ![k] = Append(@, "read")]
        /\ Return(k, IF ~d.ok THEN Err("DecodeVerAckFailed")
                     ELSE IF IsVerack(d.payload) THEN Ok(TRUE)
                     ELSE Err("VerAckError"))
        /\ conn' = [conn EXCEPT ![k] = StreamAfterReturn(@)]
    /\ UNCHANGED <<sent, vmsg>>
    /\ UNCHANGED callerVars
    /\ UNCHANGED apiVars


\* ---------------------------------- HandshakeManager::establish_handshake
\* Faulty variant of EstablishResult: an elapsed timer is taken for success.
EstablishResultIgnoresTimeout(timeout_result) ==
    IF timeout_result.tag = "Err"
    THEN Ok(TRUE)
    ELSE LET jh_result == timeout_result.val IN
         IF jh_result.tag = "Err"
         THEN Err(<<"HandshakeError", "HandshakeThreadError">>)
         ELSE LET hs_result == jh_result.val IN
              IF hs_result.tag = "Err"
              THEN Err(<<"HandshakeError", "HandshakeMessageExchangeError", hs_result.val>>)
              ELSE Ok(hs_result.val)

\* Faulty variant of EstablishResult: the report of a failed message
\* exchange loses the reason attached by exec_handshake.
EstablishResultDropsReason(timeout_result) ==
    IF timeout_result.tag = "Err"
    THEN Err(<<"HandshakeError", "Elapsed">>)
    ELSE LET jh_result == timeout_result.val IN
         IF jh_result.tag = "Err"
         THEN Err(<<"HandshakeError", "HandshakeThreadError">>)
         ELSE LET hs_result == jh_result.val IN
              IF hs_result.tag = "Err"
              THEN Err(<<"HandshakeError", "HandshakeMessageExchangeError">>)
              ELSE Ok(hs_result.val)

\* Faulty variant of EstablishResult: a failed message exchange is returned
\* as the status false instead of an error.
EstablishResultFalseOnFailure(timeout_result) ==
    IF timeout_result.tag = "Err"
    THEN Err(<<"HandshakeError", "Elapsed">>)
    ELSE LET jh_result == timeout_result.val IN
         IF jh_result.tag = "Err"
         THEN Err(<<"HandshakeError", "HandshakeThreadError">>)
         ELSE LET hs_result == jh_result.val IN
              IF hs_result.tag = "Err"
              THEN Ok(FALSE)
              ELSE Ok(hs_result.val)

\* Faulty variant of EstablishResult: an elapsed timer is returned as the
\* status false instead of an error.
EstablishResultFalseOnTimeout(timeout_result) ==
    IF timeout_result.tag = "Err"
    THEN Ok(FALSE)
    ELSE LET jh_result == timeout_result.val IN
         IF jh_result.tag = "Err"
         THEN Err(<<"HandshakeError", "HandshakeThreadError">>)
         ELSE LET hs_result == jh_result.val IN
              IF hs_result.tag = "Err"
              THEN Err(<<"HandshakeError", "HandshakeMessageExchangeError", hs_result.val>>)
              ELSE Ok(hs_result.val)

\* The `?` chain after timeout(..).await: the elapsed timer, a failed join and
\* a failed message exchange each become a HandshakeError report; otherwise
\* the status returned by exec_handshake is passed on.
EstablishResult(timeout_result) ==
    IF timeout_result.tag = "Err"
    THEN Err(<<"HandshakeError", "Elapsed">>)
    ELSE LET jh_result == timeout_result.val IN
         IF jh_result.tag = "Err"
         THEN Err(<<"HandshakeError", "HandshakeThreadError">>)
         ELSE LET hs_result == jh_result.val IN
              IF hs_result.tag = "Err"
              THEN Err(<<"HandshakeError", "HandshakeMessageExchangeError", hs_result.val>>)
              ELSE Ok(hs_result.val)

IsTimedOut(r) == r.tag = "Err" /\ r.val = <<"HandshakeError", "Elapsed">>

\* Faulty variant of DeadlineReached: the timer never runs out.
DeadlineNeverReached(ms) == FALSE

\* Whether the timer of timeout(Duration::from_millis(timeout_ms), ..) has run out.
DeadlineReached(ms) == ms >= timeout_ms

\* tokio::spawn(async move { exec_handshake(remote).await }) and the start of
\* timeout(..): the task exists from here on, independently of the caller.
Spawn ==
    /\ pc = "start"
    /\ i <= Len(seeds)
    /\ tpc' = [tpc EXCEPT ![i] = "connect"]
    /\ spawned' = [spawned EXCEPT ![i] = @ + 1]
    /\ elapsed' = 0
    /\ pc' = "await"
    /\ UNCHANGED <<driver, seeds, i, outcome, statuses, result, conn, sent, rx, log, vmsg>>
    /\ UNCHANGED apiVars

\* Time passes while the caller awaits and the task has not finished.
Tick ==
    /\ pc = "await"
    /\ ~TaskDone(i)
    /\ elapsed < timeout_ms
    /\ ~DeadlineReached(elapsed + TickMs)
    /\ elapsed' = elapsed + TickMs
    /\ UNCHANGED <<driver, seeds, i, pc, outcome, statuses, spawned>>
    /\ UNCHANGED taskVars
    /\ UNCHANGED apiVars

\* Faulty variant of TimeoutElapsed: the timer wins whenever the deadline is
\* reached, also when the task has finished.
TimeoutElapsedAnyway ==
    /\ pc = "await"
    /\ DeadlineReached(elapsed + TickMs)
    /\ elapsed' = 0
    /\ outcome' = [outcome EXCEPT ![i] = EstablishResult(Err("Elapsed"))]
    /\ pc' = "handle"
    /\ UNCHANGED <<driver, seeds, i, statuses, spawned>>
    /\ UNCHANGED taskVars
    /\ UNCHANGED apiVars

\* The timer runs out with the join handle still pending: timeout(..) yields
\* Err(Elapsed) and drops the join handle, and establish_handshake returns.
\* Nothing here touches the task or its stream.
TimeoutElapsed ==
    /\ pc = "await"
    /\ ~TaskDone(i)
    /\ DeadlineReached(elapsed + TickMs)
    /\ elapsed' = 0
    /\ outcome' = [outcome EXCEPT ![i] = EstablishResult(Err("Elapsed"))]
    /\ pc' = "handle"
    /\ UNCHANGED <<driver, seeds, i, statuses, spawned>>
    /\ UNCHANGED taskVars
    /\ UNCHANGED apiVars

\* Faulty variant of JoinHandshake: establish_handshake itself writes the
\* status of the peer into the map before it returns.
JoinHandshakeRecords ==
    /\ pc = "await"
    /\ TaskDone(i)
    /\ outcome' = [outcome EXCEPT ![i] = EstablishResult(Ok(Ok(result[i])))]
    /\ statuses' = [statuses EXCEPT ![seeds[i]] = Ok(IsOkTrue(result[i]))]
    /\ elapsed' = 0
    /\ pc' = "handle"
    /\ UNCHANGED <<driver, seeds, i, spawned>>
    /\ UNCHANGED taskVars
    /\ UNCHANGED apiVars

\* The task finished first: timeout(..) yields Ok(Ok(result of exec_handshake)).
JoinHandshake ==
    /\ pc = "await"
    /\ TaskDone(i)
    /\ outcome' = [outcome EXCEPT ![i] = EstablishResult(Ok(Ok(result[i])))]
    /\ elapsed' = 0
    /\ pc' = "handle"
    /\ UNCHANGED <<driver, seeds, i, statuses, spawned>>
    /\ UNCHANGED taskVars
    /\ UNCHANGED apiVars

\* ------------------------------------- HandshakeManager::record_handshake
\* Faulty variant of record_handshake: an existing entry is kept.
record_handshake_if_absent(st, remote, status) ==
    IF st[remote].tag = "None" THEN [st EXCEPT ![remote] = Ok(status)] ELSE st

record_handshake(st, remote, status) == [st EXCEPT ![remote] = Ok(status)]

\* ------------------------------------------------- config.rs run (-hbi/-hbu)
\* Faulty variant of RecordedStatus: every attempt is recorded as completed.
RecordedStatusAlwaysTrue(r) == TRUE

\* Faulty variant of RecordedStatus: every attempt is recorded as failed.
RecordedStatusAlwaysFalse(r) == FALSE

\* The status `run` records for a result of establish_handshake: the returned
\* status on Ok, false on every error.
RecordedStatus(r) == IF r.tag = "Ok" THEN r.val ELSE FALSE

\* Faulty variant of RunRecord: the entry is written while the attempt is
\* still awaited.
RunRecordEarly ==
    /\ pc = "await"
    /\ driver = "run"
    /\ statuses' = record_handshake(statuses, seeds[i], FALSE)
    /\ pc' = "done"
    /\ UNCHANGED <<driver, seeds, i, elapsed, outcome, spawned>>
    /\ UNCHANGED taskVars
    /\ UNCHANGED apiVars

RunRecord ==
    /\ pc = "handle"
    /\ driver = "run"
    /\ statuses' = record_handshake(statuses, seeds[i], RecordedStatus(outcome[i]))
    /\ pc' = "done"
    /\ UNCHANGED <<driver, seeds, i, elapsed, outcome, spawned>>
    /\ UNCHANGED taskVars
    /\ UNCHANGED apiVars

\* ------------------------------------------------------ the peer loop (main)
\* Faulty variant of LoopBreaks: the loop goes on after a success.
LoopNeverBreaks(r) == FALSE

\* The loop's match on the result: Ok breaks out of the loop.
LoopBreaks(r) == r.tag = "Ok"

MainHandle ==
    /\ pc = "handle"
    /\ driver = "main"
    /\ IF LoopBreaks(outcome[i])
       THEN pc' = "done" /\ i' = i
       ELSE pc' = "start" /\ i' = i + 1
    /\ UNCHANGED <<driver, seeds, elapsed, outcome, statuses, spawned>>
    /\ UNCHANGED taskVars
    /\ UNCHANGED apiVars

\* `for remote in dsm.seeds` has no element left.
MainLoopEnd ==
    /\ pc = "start"
    /\ i > Len(seeds)
    /\ pc' = "done"
    /\ UNCHANGED <<driver, seeds, i, elapsed, outcome, statuses, spawned>>
    /\ UNCHANGED taskVars
    /\ UNCHANGED apiVars

\* ------------------------------------------------------------ specification
TaskStep ==
    \E k \in Attempts :
        \/ Connect(k)
        \/ WriteVersion(k)
        \/ ReadVersion(k)
        \/ WriteVerack(k)
        \/ ReadVerack(k)

Next ==
    \/ TaskStep
    \/ Spawn
    \/ Tick
    \/ TimeoutElapsed
    \/ JoinHandshake
    \/ RunRecord
    \/ MainHandle
    \/ MainLoopEnd

Spec == Init /\ [][Next]_vars

\* The caller's own steps and the runtime's timer always make progress; the
\* task's blocking calls depend on the peer and need not return.
FairSpec ==
    /\ Spec
    /\ WF_vars(Spawn)
    /\ WF_vars(Tick)
    /\ WF_vars(TimeoutElapsed)
    /\ WF_vars(JoinHandshake)
    /\ WF_vars(RunRecord)
    /\ WF_vars(MainHandle)
    /\ WF_vars(MainLoopEnd)


\* ------------------------------------------------ exec_handshake on its own
\* Two runs of exec_handshake, each with whatever its connection and its
\* peer give it; no caller, no timer.
Runs == {1, 2}

ExecInit ==
    /\ driver = "exec"
    /\ seeds = <<1, 2>>
    /\ i = 1
    /\ pc = "done"
    /\ elapsed = 0
    /\ outcome = [k \in Attempts |-> None]
    /\ statuses = [a \in Addrs |-> None]
    /\ spawned = [k \in Attempts |-> IF k \in Runs THEN 1 ELSE 0]
    /\ tpc = [k \in Attempts |-> IF k \in Runs THEN "connect" ELSE "unspawned"]
    /\ result = [k \in Attempts |-> None]
    /\ conn = [k \in Attempts |-> "none"]
    /\ sent = [k \in Attempts |-> <<>>]
    /\ rx = [k \in Attempts |-> <<>>]
    /\ log = [k \in Attempts |-> <<>>]
    /\ vmsg = [k \in Attempts |-> NoVersions]
    /\ ApiIdle

ExecNext == TaskStep

ExecSpec == ExecInit /\ [][ExecNext]_vars


\* ------------------------------------------------ the ledger on its own
MaxCalls == 4

LedgerInit == HandshakeIdle /\ ApiIdle

\* One call record_handshake(remote, status) on the manager.
RecordCall ==
    /\ Len(calls) < MaxCalls
    /\ \E remote \in Addrs, status \in BOOLEAN :
        /\ statuses' = record_handshake(statuses, remote, status)
        /\ calls' = Append(calls, [remote |-> remote, status |-> status])
    /\ UNCHANGED <<driver, seeds, i, pc, elapsed, outcome, spawned>>
    /\ UNCHANGED taskVars
    /\ UNCHANGED <<seed, lookup, cli, codec>>

LedgerNext == RecordCall

LedgerSpec == LedgerInit /\ [][LedgerNext]_vars

\* ------------------------------------------------------- DnsSeedManager
MaxIndex == 10

DEFAULT_PORT_MAINNET == 8333

DEFAULT_DNS_SEEDS ==
    <<"seed.bitcoin.sipa.be.",
      "dnsseed.bluematt.me.",
      "dnsseed.bitcoin.dashjr.org.",
      "seed.bitcoinstats.com.",
      "seed.bitcoin.jonasschnelli.ch.",
      "seed.btc.petertodd.org.",
      "seed.bitcoin.sprovoost.nl.",
      "dnsseed.emzy.de.",
      "seed.bitcoin.wiz.biz.">>

Some(v) == [tag |-> "Some", val |-> v]
Uncalled == [tag |-> "Uncalled", val |-> "none"]

\* Faulty variant of dns_seed_at_index: the last entry is out of reach.
dns_seed_at_index_short(idx) ==
    IF idx < Len(DEFAULT_DNS_SEEDS) - 1 THEN Some(DEFAULT_DNS_SEEDS[idx + 1]) ELSE None

\* DEFAULT_DNS_SEEDS.get(i), for the 0-based index i of the slice.
dns_seed_at_index(idx) ==
    IF idx < Len(DEFAULT_DNS_SEEDS) THEN Some(DEFAULT_DNS_SEEDS[idx + 1]) ELSE None

SeedInit ==
    /\ HandshakeIdle
    /\ calls = <<>>
    /\ seed = [pc |-> "ready", index |-> -1, ret |-> None,
               first |-> [n \in 0..MaxIndex |-> Uncalled]]
    /\ lookup = Idle
    /\ cli = Idle
    /\ codec = Idle

\* One call dns_seed_at_index(idx); the first result for each index is kept.
CallSeedAt ==
    /\ seed.pc = "ready"
    /\ \E idx \in 0..MaxIndex :
        LET ret == dns_seed_at_index(idx) IN
        seed' = [seed EXCEPT !.index = idx,
                             !.ret = ret,
                             !.first[idx] = IF @.tag = "Uncalled" THEN ret ELSE @]
    /\ UNCHANGED <<driver, seeds, i, pc, elapsed, outcome, statuses, spawned>>
    /\ UNCHANGED taskVars
    /\ UNCHANGED <<calls, lookup, cli, codec>>

SeedNext == CallSeedAt

SeedSpec == SeedInit /\ [][SeedNext]_vars

\* ------------------------------------ DnsSeedManager::lookup_active_nodes
\* What to_socket_addrs can answer for one hostname: an error, or addresses.
ResolverAnswer == {Err("dns")} \cup {Ok(<<a>>) : a \in Addrs}

\* Faulty variant of extend_resolved: a failed hostname discards what the
\* hostnames before it contributed.
extend_resolved_or_clear(v, sa) == IF sa.tag = "Ok" THEN v \o sa.val ELSE <<>>

\* `if sa.is_ok() { v.extend(sa.unwrap()) }`
extend_resolved(v, sa) == IF sa.tag = "Ok" THEN v \o sa.val ELSE v

LookupInit ==
    /\ HandshakeIdle
    /\ calls = <<>>
    /\ seed = Idle
    /\ lookup = [pc |-> "loop", dns |-> DEFAULT_DNS_SEEDS, d |-> 1, v |-> <<>>,
                 answers |-> <<>>]
    /\ cli = Idle
    /\ codec = Idle

\* One iteration of `for d in dns.iter()`: resolve the hostname, keep its
\* addresses if it resolved.
LookupHost ==
    /\ lookup.pc = "loop"
    /\ lookup.d <= Len(lookup.dns)
    /\ \E sa \in ResolverAnswer :
        lookup' = [lookup EXCEPT !.d = @ + 1,
                                 !.v = extend_resolved(@, sa),
                                 !.answers = Append(@, sa)]
    /\ UNCHANGED <<driver, seeds, i, pc, elapsed, outcome, statuses, spawned>>
    /\ UNCHANGED taskVars
    /\ UNCHANGED <<calls, seed, cli, codec>>

\* The loop is over: v is returned.
LookupReturn ==
    /\ lookup.pc = "loop"
    /\ lookup.d > Len(lookup.dns)
    /\ lookup' = [lookup EXCEPT !.pc = "done"]
    /\ UNCHANGED <<driver, seeds, i, pc, elapsed, outcome, statuses, spawned>>
    /\ UNCHANGED taskVars
    /\ UNCHANGED <<calls, seed, cli, codec>>

LookupNext == LookupHost \/ LookupReturn

LookupSpec == LookupInit /\ [][LookupNext]_vars

\* ------------------------------------------------------- config.rs run
Missing == [kind |-> "missing", n |-> 0]
Text == [kind |-> "text", n |-> 0]
Number(n) == [kind |-> "number", n |-> n]
SockAddr(a) == [kind |-> "addr", n |-> a]

IndexArg == {Missing, Text} \cup {Number(n) : n \in 0..MaxIndex}
PeerIndexArg == {Missing} \cup {Number(n) : n \in 0..NumPeers}
UrlArg == {Missing, Text} \cup {SockAddr(a) : a \in Addrs}

\* What lookup_host can answer: an error, one address, or every address.
LookupHostAnswer == ResolverAnswer \cup {Ok([k \in 1..NumPeers |-> k])}

ConfigError(cause) == Err(<<"ConfigError">> \o cause)

\* argument_to_number(args, pos), pos counted from 0.
argument_to_number(args, pos) ==
    IF args[pos + 1].kind = "missing" THEN ConfigError(<<"ArgumentNotFound">>)
    ELSE IF args[pos + 1].kind # "number" THEN ConfigError(<<"ParseIntError">>)
    ELSE Ok(args[pos + 1].n)

\* Faulty variant of new_with_dns: a failed lookup gives a manager without
\* addresses.
new_with_dns_swallows(answer) ==
    IF answer.tag = "Err" THEN Ok(<<>>) ELSE Ok(answer.val)

\* DnsSeedManager::new_with_dns once lookup_host has answered: the error is
\* returned as DnsLookupError, the addresses become active_nodes.
new_with_dns(answer) ==
    IF answer.tag = "Err" THEN Err(<<"DnsLookupError">>) ELSE Ok(answer.val)

\* DnsSeedManager::get(i), i counted from 0.
dsm_get(active_nodes, idx) ==
    IF idx < Len(active_nodes) THEN Some(active_nodes[idx + 1]) ELSE None

CliStart(command, args) ==
    [pc |-> "start", command |-> command, arguments |-> args,
     dns_url |-> None, answer |-> None, dsm |-> None, remote |-> None, ret |-> None]

CliInit ==
    /\ HandshakeIdle
    /\ calls = <<>>
    /\ seed = Idle
    /\ lookup = Idle
    /\ cli \in {CliStart("-l", <<Missing, Missing>>), CliStart("-x", <<Missing, Missing>>)}
              \cup {CliStart("-r", <<a, Missing>>) : a \in IndexArg}
              \cup {CliStart("-hbi", <<a, b>>) : a \in IndexArg, b \in PeerIndexArg}
              \cup {CliStart("-hbu", <<a, Missing>>) : a \in UrlArg}
    /\ codec = Idle

CliFrame ==
    /\ UNCHANGED <<driver, seeds, i, pc, elapsed, outcome, statuses, spawned>>
    /\ UNCHANGED taskVars
    /\ UNCHANGED <<calls, seed, lookup, codec>>

CliReturn(ret) == cli' = [cli EXCEPT !.pc = "done", !.ret = ret]

\* `-l`: the default seeds are printed.
RunList ==
    /\ cli.pc = "start"
    /\ cli.command = "-l"
    /\ CliReturn(Ok("unit"))
    /\ CliFrame

\* `-r` and `-hbi` up to the await of lookup_host in new_with_dns.
RunResolveStart ==
    /\ cli.pc = "start"
    /\ cli.command \in {"-r", "-hbi"}
    /\ LET dns_index == argument_to_number(cli.arguments, 0) IN
       IF dns_index.tag = "Err" THEN CliReturn(dns_index)
       ELSE LET dns_url == dns_seed_at_index(dns_index.val) IN
            IF dns_url.tag = "None"
            THEN IF cli.command = "-hbi"
                 THEN \* dns_seed_at_index(dns_url_index).unwrap()
                      CliReturn([tag |-> "Panic", val |-> "unwrap on None"])
                 ELSE CliReturn(ConfigError(<<"DnsLookupError", "BadSeedIndex">>))
            ELSE cli' = [cli EXCEPT !.pc = "lookup_host", !.dns_url = dns_url]
    /\ CliFrame

\* lookup_host answers; `-r` prints the addresses, `-hbi` picks the peer.
RunResolved ==
    /\ cli.pc = "lookup_host"
    /\ \E answer \in LookupHostAnswer :
        LET dsm == new_with_dns(answer) IN
        IF dsm.tag = "Err"
        THEN cli' = [cli EXCEPT !.pc = "done", !.answer = answer,
                                !.ret = ConfigError(dsm.val)]
        ELSE IF cli.command = "-r"
        THEN cli' = [cli EXCEPT !.pc = "done", !.answer = answer,
                                !.dsm = Some(dsm.val), !.ret = Ok("unit")]
        ELSE LET remote_peer_index == argument_to_number(cli.arguments, 1) IN
             IF remote_peer_index.tag = "Err"
             THEN cli' = [cli EXCEPT !.pc = "done", !.answer = answer,
                                     !.dsm = Some(dsm.val), !.ret = remote_peer_index]
             ELSE LET remote == dsm_get(dsm.val, remote_peer_index.val) IN
                  IF remote.tag = "None"
                  THEN cli' = [cli EXCEPT !.pc = "done", !.answer = answer,
                                          !.dsm = Some(dsm.val),
                                          !.ret = ConfigError(<<"BadRemotePeerIndex">>)]
                  ELSE cli' = [cli EXCEPT !.pc = "establish_handshake",
                                          !.answer = answer,
                                          !.dsm = Some(dsm.val), !.remote = remote]
    /\ CliFrame

\* `-hbu` up to the call of establish_handshake.
RunUrlStart ==
    /\ cli.pc = "start"
    /\ cli.command = "-hbu"
    /\ IF cli.arguments[1].kind = "missing"
       THEN CliReturn(ConfigError(<<"ArgumentNotFound">>))
       ELSE IF cli.arguments[1].kind # "addr"
       THEN CliReturn(ConfigError(<<"AddrParseError">>))
       ELSE cli' = [cli EXCEPT !.pc = "establish_handshake",
                               !.remote = Some(cli.arguments[1].n)]
    /\ CliFrame

\* Any other command.
RunInvalid ==
    /\ cli.pc = "start"
    /\ cli.command \notin {"-l", "-r", "-hbi", "-hbu"}
    /\ CliReturn(ConfigError(<<"ConfigRunError">>))
    /\ CliFrame

CliNext ==
    \/ RunList
    \/ RunResolveStart
    \/ RunResolved
    \/ RunUrlStart
    \/ RunInvalid

CliSpec == CliInit /\ [][CliNext]_vars

\* -------------------------------------------------- network_messages.rs
MaxBuilds == 2

\* "user-agent-bitcoin-p2p-handshake" as bytes.
USER_AGENT ==
    <<117, 115, 101, 114, 45, 97, 103, 101, 110, 116, 45, 98, 105, 116, 99, 111,
      105, 110, 45, 112, 50, 112, 45, 104, 97, 110, 100, 115, 104, 97, 107, 101>>

\* std::net::SocketAddr: an IPv4 address of 4 octets or an IPv6 address of 8
\* segments, and a port.
SocketAddrV4(octets, port) == [family |-> "V4", ip |-> octets, port |-> port]
SocketAddrV6(segments, port) == [family |-> "V6", ip |-> segments, port |-> port]

SocketAddrs ==
    {SocketAddrV4(<<127, 0, 0, 1>>, DEFAULT_PORT_MAINNET),
     SocketAddrV4(<<10, 0, 2, 15>>, 54321),
     SocketAddrV6(<<0, 0, 0, 0, 0, 0, 0, 1>>, DEFAULT_PORT_MAINNET),
     SocketAddrV6(<<8193, 3512, 0, 0, 0, 0, 0, 1>>, 18333)}

\* Address::new(socket, services): an IPv4 address is stored IPv6-mapped.
Address_new(socket, services) ==
    [services |-> services,
     address |-> IF socket.family = "V4"
                 THEN <<0, 0, 0, 0, 0, 65535,
                        socket.ip[1] * 256 + socket.ip[2],
                        socket.ip[3] * 256 + socket.ip[4]>>
                 ELSE socket.ip,
     port |-> socket.port]

\* Faulty variant of new_version_message: receiver and sender are swapped.
new_version_message_swapped(local_peer, remote_peer, version, timestamp, nonce) ==
    [tag |-> "Version",
     val |-> [version |-> version,
              services |-> ServiceFlagsNone,
              timestamp |-> timestamp,
              receiver |-> Address_new(local_peer, ServiceFlagsNone),
              sender |-> Address_new(remote_peer, ServiceFlagsNone),
              nonce |-> nonce,
              user_agent |-> USER_AGENT,
              start_height |-> 0,
              relay |-> FALSE]]

\* new_version_message(local_peer, remote_peer), with the constant of the
\* build and the two values it draws (clock, random source) as parameters.
\* VersionMessage::new leaves relay false.
new_version_message(local_peer, remote_peer, version, timestamp, nonce) ==
    [tag |-> "Version",
     val |-> [version |-> version,
              services |-> ServiceFlagsNone,
              timestamp |-> timestamp,
              receiver |-> Address_new(remote_peer, ServiceFlagsNone),
              sender |-> Address_new(local_peer, ServiceFlagsNone),
              nonce |-> nonce,
              user_agent |-> USER_AGENT,
              start_height |-> 0,
              relay |-> FALSE]]

\* Integers on the wire: width bytes, least or most significant byte first.
RECURSIVE to_le_bytes(_, _)
to_le_bytes(n, width) ==
    IF width = 0 THEN <<>> ELSE <<n % 256>> \o to_le_bytes(n \div 256, width - 1)

RECURSIVE from_le_bytes(_)
from_le_bytes(bs) ==
    IF bs = <<>> THEN 0 ELSE bs[1] + 256 * from_le_bytes(Tail(bs))

Reverse(bs) == [k \in 1..Len(bs) |-> bs[Len(bs) + 1 - k]]

to_be_bytes(n, width) == Reverse(to_le_bytes(n, width))
from_be_bytes(bs) == from_le_bytes(Reverse(bs))

\* Address on the wire: services, 8 segments and the port, the last two
\* most significant byte first.
RECURSIVE encode_segments(_)
encode_segments(segments) ==
    IF segments = <<>> THEN <<>>
    ELSE to_be_bytes(segments[1], 2) \o encode_segments(Tail(segments))

encode_address(a) ==
    to_le_bytes(a.services, 8) \o encode_segments(a.address) \o to_be_bytes(a.port, 2)

decode_address(bs) ==
    [services |-> from_le_bytes(SubSeq(bs, 1, 8)),
     address |-> [k \in 1..8 |-> from_be_bytes(SubSeq(bs, 7 + 2 * k, 8 + 2 * k))],
     port |-> from_be_bytes(SubSeq(bs, 25, 26))]

\* VarInt of a length below 0x10000.
encode_varint(n) == IF n < 253 THEN <<n>> ELSE <<253>> \o to_le_bytes(n, 2)

\* The payload of a NetworkMessage on the wire.
encode_payload(message) ==
    IF message.tag # "Version" THEN <<>>
    ELSE LET m == message.val IN
         to_le_bytes(m.version, 4)
         \o to_le_bytes(m.services, 8)
         \o to_le_bytes(m.timestamp, 8)
         \o encode_address(m.receiver)
         \o encode_address(m.sender)
         \o to_le_bytes(m.nonce, 8)
         \o encode_varint(Len(m.user_agent)) \o m.user_agent
         \o to_le_bytes(m.start_height, 4)
         \o <<IF m.relay THEN 1 ELSE 0>>

\* Length of the fixed part of a Version payload before the user agent.
VersionHead == 80

decode_payload_version(p) ==
    IF Len(p) < VersionHead + 1 THEN Err("Io")
    ELSE LET n == p[VersionHead + 1] IN
         IF n >= 253 \/ Len(p) < VersionHead + 1 + n + 5 THEN Err("Io")
         ELSE Ok([tag |-> "Version",
                  val |-> [version |-> from_le_bytes(SubSeq(p, 1, 4)),
                           services |-> from_le_bytes(SubSeq(p, 5, 12)),
                           timestamp |-> from_le_bytes(SubSeq(p, 13, 20)),
                           receiver |-> decode_address(SubSeq(p, 21, 46)),
                           sender |-> decode_address(SubSeq(p, 47, 72)),
                           nonce |-> from_le_bytes(SubSeq(p, 73, 80)),
                           user_agent |-> SubSeq(p, VersionHead + 2, VersionHead + 1 + n),
                           start_height |->
                               from_le_bytes(SubSeq(p, VersionHead + 2 + n,
                                                    VersionHead + 5 + n)),
                           relay |-> p[VersionHead + 6 + n] # 0]])

\* The 12 command bytes of the envelope.
CommandVersion == <<118, 101, 114, 115, 105, 111, 110, 0, 0, 0, 0, 0>>
CommandVerack == <<118, 101, 114, 97, 99, 107, 0, 0, 0, 0, 0, 0>>

command_bytes(message) == IF message.tag = "Version" THEN CommandVersion ELSE CommandVerack

\* Network::Bitcoin.magic() on the wire, and the bytes of another network.
magic_bytes(magic) ==
    IF magic = MagicBitcoin THEN <<249, 190, 180, 217>> ELSE <<11, 17, 9, 7>>

magic_of(bs) == IF bs = magic_bytes(MagicBitcoin) THEN MagicBitcoin ELSE MagicOther

\* The 4 checksum bytes of a payload.  The double SHA-256 is replaced by a
\* position-weighted sum of the same bytes: what is kept is that the
\* checksum is a function of the payload bytes alone.
RECURSIVE fold_bytes(_, _, _)
fold_bytes(bs, lo, hi) ==
    IF lo > hi THEN 0
    ELSE IF lo = hi THEN (bs[lo] * (lo + 1)) % 65521
    ELSE LET mid == (lo + hi) \div 2 IN
         (fold_bytes(bs, lo, mid) + fold_bytes(bs, mid + 1, hi)) % 65521

sha2_checksum(payload) == to_le_bytes(fold_bytes(payload, 1, Len(payload)), 4)

\* bitcoin::consensus::encode::serialize(&RawNetworkMessage { magic, payload }).
serialize(magic, message) ==
    LET payload == encode_payload(message) IN
    magic_bytes(magic) \o command_bytes(message)
    \o to_le_bytes(Len(payload), 4) \o sha2_checksum(payload) \o payload

\* new_version_message_serialised(local_peer, remote_peer): the tuple of the
\* protocol version and the bytes of the envelope.
new_version_message_serialised(local_peer, remote_peer, version, timestamp, nonce) ==
    LET message == new_version_message(local_peer, remote_peer, version, timestamp, nonce) IN
    <<message.val.version, serialize(MagicBitcoin, message)>>

\* RawNetworkMessage::consensus_decode on the bytes of one envelope.
deserialize(bs) ==
    IF Len(bs) < 24 THEN Err("Io")
    ELSE LET len == from_le_bytes(SubSeq(bs, 17, 20)) IN
         IF Len(bs) < 24 + len THEN Err("Io")
         ELSE LET payload == SubSeq(bs, 25, 24 + len)
                  command == SubSeq(bs, 5, 16)
                  decoded == IF command = CommandVersion THEN decode_payload_version(payload)
                             ELSE IF command = CommandVerack
                             THEN Ok([tag |-> "Verack", val |-> "none"])
                             ELSE Ok([tag |-> "Unknown", val |-> "none"])
              IN
              IF SubSeq(bs, 21, 24) # sha2_checksum(payload) THEN Err("InvalidChecksum")
              ELSE IF decoded.tag = "Err" THEN decoded
              ELSE Ok([magic |-> magic_of(SubSeq(bs, 1, 4)), payload |-> decoded.val])

CodecInit ==
    /\ HandshakeIdle
    /\ calls = <<>>
    /\ seed = Idle
    /\ lookup = Idle
    /\ cli = Idle
    /\ \E local_peer \in SocketAddrs, remote_peer \in SocketAddrs,
          version \in ProtocolVersions :
        codec = [pc |-> "ready", local_peer |-> local_peer, remote_peer |-> remote_peer,
                 PROTOCOL_VERSION |-> version, builds |-> 0,
                 version |-> 0, bytes |-> <<>>, decoded |-> None, previous |-> None]

CodecFrame ==
    /\ UNCHANGED <<driver, seeds, i, pc, elapsed, outcome, statuses, spawned>>
    /\ UNCHANGED taskVars
    /\ UNCHANGED <<calls, seed, lookup, cli>>

\* One call of new_version_message_serialised(local_peer, remote_peer).
NewVersionMessageSerialised ==
    /\ codec.pc \in {"ready", "decoded"}
    /\ codec.builds < MaxBuilds
    /\ \E timestamp \in Timestamps, nonce \in Nonces :
        LET built == new_version_message_serialised(codec.local_peer, codec.remote_peer,
                                                    codec.PROTOCOL_VERSION, timestamp, nonce)
        IN codec' = [codec EXCEPT !.pc = "serialised", !.builds = @ + 1,
                                  !.version = built[1], !.bytes = built[2],
                                  !.decoded = None, !.previous = codec.decoded]
    /\ CodecFrame

\* The reader of the bytes decodes one envelope from them.
ConsensusDecode ==
    /\ codec.pc = "serialised"
    /\ codec' = [codec EXCEPT !.pc = "decoded", !.decoded = deserialize(codec.bytes)]
    /\ CodecFrame

CodecNext ==
    \/ NewVersionMessageSerialised
    \/ ConsensusDecode

CodecSpec == CodecInit /\ [][CodecNext]_vars

\* ------------------------------------------------------------ properties
Range(seq) == {seq[n] : n \in DOMAIN seq}

Returned(k) == outcome[k].tag # "None"

HandshakeOrder == <<"connect", "write_version", "read", "write_verack", "read">>

IsPrefix(p, q) == Len(p) <= Len(q) /\ \A n \in 1..Len(p) : p[n] = q[n]

GoodVersion == [ok |-> TRUE, magic |-> MagicBitcoin, payload |-> "Version"]
GoodVerack == [ok |-> TRUE, magic |-> MagicBitcoin, payload |-> "Verack"]

\* The peer of task k answered the local Version with a Version and the
\* local Verack with a Verack.
Compliant(k) == rx[k] = <<GoodVersion, GoodVerack>>

\* A read that did not yield a well-formed envelope: no or too few bytes, a
\* wrong checksum, or a magic other than that of the Bitcoin network.
Malformed(d) == ~d.ok \/ d.magic # MagicBitcoin

\* C1: once the caller has the timed-out outcome of an attempt, the TCP
\* connection opened by that attempt's task is no longer open.
C1_TimedOutConnectionClosed ==
    \A k \in Attempts : IsTimedOut(outcome[k]) => conn[k] # "open"

\* C2: once the caller has the timed-out outcome of an attempt, that attempt's
\* task takes no further step: no read, no write, no result.
C2_NoStepAfterTimedOut ==
    [][\A k \in Attempts :
          IsTimedOut(outcome[k]) =>
              /\ tpc'[k] = tpc[k]
              /\ sent'[k] = sent[k]
              /\ rx'[k] = rx[k]
              /\ result'[k] = result[k]]_vars

\* C3: when the budget (timeout_ms, 2000 by default) runs out while the task
\* has not finished, establish_handshake returns the timed-out error, not
\* Ok(true), and what it returned stays what the caller has, whatever the
\* task does afterwards.
C3_TimeoutReturnsError ==
    [][/\ (/\ pc = "await"
           /\ ~TaskDone(i)
           /\ elapsed + TickMs >= DefaultTimeoutMs
           /\ pc' # "await")
          => (IsTimedOut(outcome'[i]) /\ ~IsOkTrue(outcome'[i]))
       /\ \A k \in Attempts : Returned(k) => outcome'[k] = outcome[k]]_vars

\* An attempt timed out and its task later ran to Ok(true).
C3_Witness ==
    \E k \in Attempts :
        IsTimedOut(outcome[k]) /\ TaskDone(k) /\ IsOkTrue(result[k])

\* C4: the steps of one attempt are completed in the order connect, write
\* Version, read, write Verack, read; the local Verack is written only after
\* a Version has been decoded from the peer, and each read follows the
\* completed write of the local message before it.
C4_StrictOrder ==
    \A k \in Attempts :
        /\ IsPrefix(log[k], HandshakeOrder)
        /\ IsPrefix(sent[k], <<"version", "verack">>)
        /\ "verack" \in Range(sent[k]) =>
               (Len(rx[k]) >= 1 /\ rx[k][1].ok /\ rx[k][1].payload = "Version")
        /\ Len(rx[k]) <= Len(sent[k])
        /\ tpc[k] = "write_verack" => Len(rx[k]) = 1
        /\ tpc[k] \in {"read_version", "read_verack"} =>
               Len(sent[k]) = Len(rx[k]) + 1

\* An attempt went through all five steps.
C4_Witness == \E k \in Attempts : log[k] = HandshakeOrder

\* C5: with a compliant responder and no timeout, establish_handshake
\* returns Ok(true), and once `run` has recorded the outcome the ledger entry
\* of the peer address is true.
C5_CompliantCompletes ==
    \A k \in Attempts :
        (Compliant(k) /\ Returned(k) /\ ~IsTimedOut(outcome[k])) =>
            /\ IsOkTrue(outcome[k])
            /\ (driver = "run" /\ pc = "done") => IsOkTrue(statuses[seeds[k]])

\* `run` has finished an attempt against a compliant responder.
C5_Witness ==
    /\ driver = "run"
    /\ pc = "done"
    /\ Compliant(1)
    /\ IsOkTrue(outcome[1])
    /\ IsOkTrue(statuses[seeds[1]])

\* C6: if the first decoded envelope is not a Version, the task fails with
\* the wrong-protocol error at once, the local Verack is never written, and
\* establish_handshake returns an error.
C6_FirstNotVersionFails ==
    \A k \in Attempts :
        (Len(rx[k]) >= 1 /\ rx[k][1].ok /\ rx[k][1].payload # "Version") =>
            /\ TaskDone(k)
            /\ result[k].tag = "Err"
            /\ result[k].val = "WrongProtocol"
            /\ "verack" \notin Range(sent[k])
            /\ Len(rx[k]) = 1
            /\ Returned(k) =>
                   /\ outcome[k].tag = "Err"
                   /\ ~IsTimedOut(outcome[k]) =>
                          outcome[k].val = <<"HandshakeError",
                                             "HandshakeMessageExchangeError",
                                             "WrongProtocol">>

\* The caller got the error of an attempt whose peer answered the local
\* Version with a Verack.
C6_Witness ==
    \E k \in Attempts :
        /\ Len(rx[k]) = 1
        /\ rx[k][1] = GoodVerack
        /\ Returned(k)
        /\ ~IsTimedOut(outcome[k])

\* C7: if a read does not yield a well-formed envelope (no bytes, a cut
\* stream, a wrong checksum or a wrong magic), the attempt fails, never
\* completes, and nothing is written after that read.
C7_MalformedReadFails ==
    \A k \in Attempts :
        \A n \in DOMAIN rx[k] :
            Malformed(rx[k][n]) =>
                /\ TaskDone(k)
                /\ result[k].tag = "Err"
                /\ Len(sent[k]) <= n
                /\ Len(rx[k]) = n

C9_OneTaskAtATime ==
    Cardinality({k \in Attempts : TaskRunning(k) /\ conn[k] = "open"}) <= 1

\* C10: the peer loop stops at the first Ok: no candidate after it is
\* attempted, and every candidate before it was attempted exactly once and
\* ended in an error.
C10_StopsAtFirstCompleted ==
    \A k \in Attempts :
        /\ spawned[k] <= 1
        /\ outcome[k].tag = "Ok" =>
               /\ \A j \in Attempts :
                      j > k => (spawned[j] = 0 /\ ~Returned(j))
               /\ \A j \in Attempts :
                      j < k => (spawned[j] = 1 /\ outcome[j].tag = "Err")

\* The loop ended on a success with a candidate left untried.
C10_Witness ==
    /\ driver = "main"
    /\ pc = "done"
    /\ \E k \in Attempts : k < Len(seeds) /\ outcome[k].tag = "Ok" /\ spawned[k + 1] = 0


\* The report establish_handshake returns for a failed message exchange.
ExchangeError(reason) ==
    Err(<<"HandshakeError", "HandshakeMessageExchangeError", reason>>)

\* C11: for every candidate of the peer loop whose attempt ended in an error,
\* whatever its kind, the loop has recorded false for the address once it has
\* moved on to the next candidate.
C11_LoopRecordsFailure ==
    \A k \in Attempts :
        (driver = "main" /\ Returned(k) /\ outcome[k].tag = "Err" /\ i > k) =>
            (statuses[seeds[k]].tag = "Ok" /\ statuses[seeds[k]].val = FALSE)

\* C13: the ledger has an entry for an address only if an attempt against
\* that address has returned its outcome to the caller.
C13_EntryOnlyAfterConcluded ==
    \A a \in Addrs :
        statuses[a].tag # "None" =>
            \E k \in 1..Len(seeds) : seeds[k] = a /\ Returned(k)

\* `run` has recorded its attempt, and an address never attempted has no entry.
C13_Witness ==
    /\ driver = "run"
    /\ pc = "done"
    /\ statuses[seeds[1]].tag = "Ok"
    /\ \E a \in Addrs : a # seeds[1] /\ statuses[a].tag = "None"

\* C18: if the second decoded envelope is not a Verack the task fails with
\* the verack error and establish_handshake returns an error; Ok(true) is
\* returned only after a Version and then a Verack were decoded.
C18_SecondNotVerackFails ==
    \A k \in Attempts :
        /\ (Len(rx[k]) = 2 /\ rx[k][2].ok /\ rx[k][2].payload # "Verack") =>
               /\ TaskDone(k)
               /\ result[k].tag = "Err"
               /\ result[k].val = "VerAckError"
               /\ Returned(k) =>
                      /\ outcome[k].tag = "Err"
                      /\ ~IsTimedOut(outcome[k]) =>
                             outcome[k].val = ExchangeError("VerAckError").val
        /\ (IsOkTrue(outcome[k]) \/ IsOkTrue(result[k])) =>
               /\ Len(rx[k]) = 2
               /\ rx[k][1].ok /\ rx[k][1].payload = "Version"
               /\ rx[k][2].ok /\ rx[k][2].payload = "Verack"

\* The caller got the error of an attempt whose peer answered the local
\* Verack with a Version.
C18_Witness ==
    \E k \in Attempts :
        /\ Len(rx[k]) = 2
        /\ rx[k][2] = GoodVersion
        /\ Returned(k)
        /\ ~IsTimedOut(outcome[k])

\* C19: if the connect fails the task fails at once with the connect error:
\* nothing was written, nothing read, no connection exists, and
\* establish_handshake returns an error carrying that reason.
C19_ConnectFailureIsDirect ==
    \A k \in Attempts :
        (result[k].tag = "Err" /\ result[k].val = "ConnectFailed") =>
            /\ TaskDone(k)
            /\ sent[k] = <<>>
            /\ rx[k] = <<>>
            /\ log[k] = <<>>
            /\ conn[k] = "none"
            /\ Returned(k) =>
                   /\ outcome[k].tag = "Err"
                   /\ ~IsTimedOut(outcome[k]) =>
                          outcome[k].val = ExchangeError("ConnectFailed").val

\* The caller got the error of an attempt whose connect failed.
C19_Witness ==
    \E k \in Attempts :
        /\ result[k].tag = "Err"
        /\ result[k].val = "ConnectFailed"
        /\ Returned(k)
        /\ ~IsTimedOut(outcome[k])

\* C20: if the write of the local Version or of the local Verack fails the
\* task fails at once with that write's error and performs no later step:
\* the failed message is not sent, no read follows, and establish_handshake
\* returns an error carrying the reason.
C20_WriteFailureIsTerminal ==
    \A k \in Attempts :
        /\ (result[k].tag = "Err" /\ result[k].val = "SendVersionFailed") =>
               /\ TaskDone(k)
               /\ sent[k] = <<>>
               /\ rx[k] = <<>>
               /\ log[k] = <<"connect">>
        /\ (result[k].tag = "Err" /\ result[k].val = "SendVerAckFailed") =>
               /\ TaskDone(k)
               /\ sent[k] = <<"version">>
               /\ Len(rx[k]) = 1
               /\ log[k] = <<"connect", "write_version", "read">>
        /\ (/\ result[k].tag = "Err"
            /\ result[k].val \in {"SendVersionFailed", "SendVerAckFailed"}
            /\ Returned(k)) =>
               /\ outcome[k].tag = "Err"
               /\ ~IsTimedOut(outcome[k]) =>
                      outcome[k].val = ExchangeError(result[k].val).val

\* The caller got the errors of an attempt whose Verack write failed and of
\* one whose Version write failed.
C20_Witness ==
    \E j, k \in Attempts :
        /\ result[j].tag = "Err" /\ result[j].val = "SendVersionFailed"
        /\ Returned(j) /\ ~IsTimedOut(outcome[j])
        /\ result[k].tag = "Err" /\ result[k].val = "SendVerAckFailed"
        /\ Returned(k) /\ ~IsTimedOut(outcome[k])


\* The positions in cs of the calls made for address a.
CallsFor(cs, a) == {n \in DOMAIN cs : cs[n].remote = a}

Max(S) == CHOOSE x \in S : \A y \in S : y <= x

\* C12: after any sequence of record_handshake calls the ledger holds, for
\* each address, the status of the last call made for it, and no entry for
\* an address no call was made for.
C12_RecordIsUpsert ==
    \A a \in Addrs :
        IF CallsFor(calls, a) = {}
        THEN statuses[a].tag = "None"
        ELSE /\ statuses[a].tag = "Ok"
             /\ statuses[a].val = calls[Max(CallsFor(calls, a))].status

\* An entry was overwritten with another status after an entry of another
\* address had been written.
C12_Witness ==
    /\ Len(calls) >= 3
    /\ calls[1].remote = calls[3].remote
    /\ calls[1].status # calls[3].status
    /\ calls[2].remote # calls[1].remote


\* C14: dns_seed_at_index gives, for each index below 9, a hostname that is
\* the same on every call, in the order of the table (9 different entries,
\* the first and the last as listed), and gives no hostname from index 9 on.
C14_SeedAtIndexStable ==
    (seed.pc = "ready" /\ seed.index >= 0) =>
        /\ seed.ret.tag = seed.first[seed.index].tag
        /\ seed.ret.val = seed.first[seed.index].val
        /\ seed.index < 9 => seed.ret.tag = "Some"
        /\ seed.index >= 9 => seed.ret.tag = "None"
        /\ seed.index = 0 => seed.ret.val = "seed.bitcoin.sipa.be."
        /\ seed.index = 8 => seed.ret.val = "seed.bitcoin.wiz.biz."
        /\ \A m, n \in 0..8 :
               (m # n /\ seed.first[m].tag = "Some" /\ seed.first[n].tag = "Some")
                   => seed.first[m].val # seed.first[n].val

\* Every index up to 9 has been asked for, index 8 more than once.
C14_Witness ==
    /\ seed.pc = "ready"
    /\ \A n \in 0..9 : seed.first[n].tag # "Uncalled"
    /\ seed.index = 8
    /\ seed.first[9].tag = "None"


RECURSIVE AddressesOf(_)
\* The addresses of the answers that are not errors, in order.
AddressesOf(answers) ==
    IF answers = <<>> THEN <<>>
    ELSE LET rest == AddressesOf(SubSeq(answers, 1, Len(answers) - 1))
             last == answers[Len(answers)]
         IN IF last.tag = "Ok" THEN rest \o last.val ELSE rest

\* C15: lookup_active_nodes always returns: whatever hostnames resolve, its
\* result holds the addresses of the hostnames that resolved and nothing
\* else, every hostname is asked whatever the ones before it answered, and
\* the result is empty when every hostname fails.
C15_LookupNeverFails ==
    lookup.pc \in {"loop", "done"} =>
        /\ lookup.v = AddressesOf(lookup.answers)
        /\ Len(lookup.answers) = lookup.d - 1
        /\ lookup.pc = "loop" => (ENABLED LookupHost \/ ENABLED LookupReturn)
        /\ lookup.pc = "done" =>
               /\ Len(lookup.answers) = Len(DEFAULT_DNS_SEEDS)
               /\ Range(lookup.v) =
                      UNION {Range(lookup.answers[n].val) :
                                 n \in {m \in DOMAIN lookup.answers :
                                            lookup.answers[m].tag = "Ok"}}
               /\ (\A n \in DOMAIN lookup.answers : lookup.answers[n].tag = "Err")
                      => lookup.v = <<>>

\* The call returned the addresses of the hostnames after a failing one.
C15_Witness ==
    /\ lookup.pc = "done"
    /\ lookup.answers[1].tag = "Ok"
    /\ lookup.answers[2].tag = "Err"
    /\ lookup.answers[9].tag = "Ok"
    /\ Len(lookup.v) = 2


\* C16 as claimed: a failed lookup of the single hostname gives an empty set
\* of addresses and no error.
C16_FailedLookupYieldsEmpty ==
    (cli.pc # "idle" /\ cli.answer.tag = "Err") =>
        /\ cli.ret.tag = "Ok"
        /\ cli.dsm.tag = "Some"
        /\ cli.dsm.val = <<>>

\* C16 as the code has it: a failed lookup of the single hostname gives no
\* manager and no address; new_with_dns returns DnsLookupError and run
\* returns it as a ConfigError, without going on to a handshake.
C16_FailedLookupIsError ==
    (cli.pc # "idle" /\ cli.answer.tag = "Err") =>
        /\ cli.pc = "done"
        /\ cli.dsm.tag = "None"
        /\ cli.remote.tag = "None"
        /\ cli.ret.tag = "Err"
        /\ cli.ret.val = <<"ConfigError", "DnsLookupError">>

\* `-r` and `-hbi` ended on a failed lookup.
C16_Witness ==
    /\ cli.pc = "done"
    /\ cli.command = "-r"
    /\ cli.answer.tag = "Err"


\* The fields of a Version message that a build fixes from its arguments.
FixedFields(m) ==
    <<m.version, m.services, m.receiver, m.sender, m.user_agent, m.start_height>>

\* C17: decoding the envelope of new_version_message_serialised(local, remote)
\* gives a Version message with the protocol version of the build, no
\* services, receiver = remote, sender = local, the fixed user agent and
\* start height 0, and two builds for the same pair differ in nothing but
\* timestamp and nonce.
C17_VersionRoundTrip ==
    (codec.pc = "decoded") =>
        /\ codec.decoded.tag = "Ok"
        /\ codec.decoded.val.magic = MagicBitcoin
        /\ codec.decoded.val.payload.tag = "Version"
        /\ LET m == codec.decoded.val.payload.val IN
           /\ m.version = codec.PROTOCOL_VERSION
           /\ m.version = codec.version
           /\ m.services = ServiceFlagsNone
           /\ m.receiver = Address_new(codec.remote_peer, ServiceFlagsNone)
           /\ m.sender = Address_new(codec.local_peer, ServiceFlagsNone)
           /\ m.user_agent = USER_AGENT
           /\ m.start_height = 0
           /\ m.timestamp \in Timestamps
           /\ m.nonce \in Nonces
           /\ codec.previous.tag = "Ok" =>
                FixedFields(codec.previous.val.payload.val) = FixedFields(m)

\* A second build for an IPv4 local and an IPv6 remote address was decoded,
\* and it differs from the first in timestamp and nonce.
C17_Witness ==
    /\ codec.pc = "decoded"
    /\ codec.builds = 2
    /\ codec.local_peer.family = "V4"
    /\ codec.remote_peer.family = "V6"
    /\ codec.previous.tag = "Ok"
    /\ codec.decoded.tag = "Ok"
    /\ codec.previous.val.payload.val.timestamp # codec.decoded.val.payload.val.timestamp
    /\ codec.previous.val.payload.val.nonce # codec.decoded.val.payload.val.nonce


\* The connection call that failed in run k, if one did.
IoFailure(k) ==
    IF result[k].tag = "Err"
    THEN IF result[k].val \in {"ConnectFailed", "StreamSetupFailed",
                               "SendVersionFailed", "SendVerAckFailed"}
         THEN result[k].val
         ELSE "none"
    ELSE "none"

\* Two runs got the same from their connections and the same kinds of
\* envelopes, well-formed or not, from their peers; the fields of the remote
\* Version and the local nonce are left free.
SameButFields(a, b) ==
    /\ tpc[a] # "unspawned"
    /\ tpc[b] # "unspawned"
    /\ log[a] = log[b]
    /\ rx[a] = rx[b]
    /\ IoFailure(a) = IoFailure(b)

SameOutcome(a, b) ==
    /\ tpc[a] = tpc[b]
    /\ sent[a] = sent[b]
    /\ conn[a] = conn[b]
    /\ result[a].tag = result[b].tag
    /\ result[a].tag = "Err" => result[a].val = result[b].val

\* C22: two runs that differ only in the fields of the remote Version take
\* the same steps and end the same way, and a run that read a well-formed
\* Version and a well-formed Verack is completed whatever the fields are,
\* the nonce of the local Version included.
C22_FieldsIgnored ==
    /\ \A a \in Attempts, b \in Attempts : SameButFields(a, b) => SameOutcome(a, b)
    /\ \A k \in Attempts :
         (/\ TaskDone(k)
          /\ Len(rx[k]) = 2
          /\ rx[k][1].ok /\ rx[k][1].payload = "Version"
          /\ rx[k][2].ok /\ rx[k][2].payload = "Verack")
         => IsOkTrue(result[k])

\* Two completed runs whose remote Versions differ in every field, the first
\* of them with the nonce of its own local Version.
C22_Witness ==
    /\ IsOkTrue(result[1])
    /\ IsOkTrue(result[2])
    /\ vmsg[1].remote.val.val.nonce = vmsg[1].nonce.val
    /\ vmsg[2].remote.val.val.nonce # vmsg[2].nonce.val
    /\ vmsg[1].remote.val.val.version # vmsg[2].remote.val.val.version
    /\ vmsg[1].remote.val.val.services # vmsg[2].remote.val.val.services
    /\ vmsg[1].remote.val.val.timestamp # vmsg[2].remote.val.val.timestamp
    /\ vmsg[1].remote.val.val.receiver # vmsg[2].remote.val.val.receiver
    /\ vmsg[1].remote.val.val.sender # vmsg[2].remote.val.val.sender
    /\ vmsg[1].remote.val.val.user_agent # vmsg[2].remote.val.val.user_agent
    /\ vmsg[1].remote.val.val.start_height # vmsg[2].remote.val.val.start_height


Count(seq, x) == Cardinality({n \in DOMAIN seq : seq[n] = x})

\* Per call: one task, one connection, one local Version, one local Verack.
AtMostOnce ==
    \A k \in Attempts :
        /\ spawned[k] <= 1
        /\ Count(log[k], "connect") <= 1
        /\ Count(sent[k], "version") <= 1
        /\ Count(sent[k], "verack") <= 1

\* Once exec_handshake has returned an error its task takes no further step,
\* and once establish_handshake has returned an error that call spawns
\* nothing more and its result stays.
ErrorIsTerminal ==
    \A k \in Attempts :
        /\ result[k].tag = "Err" =>
             /\ tpc[k] = "done" /\ tpc'[k] = "done"
             /\ result'[k] = result[k]
             /\ log'[k] = log[k]
             /\ sent'[k] = sent[k]
             /\ rx'[k] = rx[k]
             /\ conn'[k] = conn[k]
        /\ outcome[k].tag = "Err" =>
             /\ outcome'[k] = outcome[k]
             /\ spawned'[k] = spawned[k]

\* C21: nothing is retried inside one establish_handshake call: at most one
\* connection, one local Version and one local Verack per call, and an error
\* ends the attempt.
C21_NothingRetried == []AtMostOnce /\ [][ErrorIsTerminal]_vars

\* An attempt failed at its last read, after one connection and one Version
\* and one Verack written, and the caller has the error.
C21_Witness ==
    \E k \in Attempts :
        /\ result[k].tag = "Err"
        /\ outcome[k].tag = "Err"
        /\ ~IsTimedOut(outcome[k])
        /\ sent[k] = <<"version", "verack">>
        /\ Count(log[k], "connect") = 1
        /\ conn[k] = "closed"


\* A step of establish_handshake (from its start to its return) or of a
\* spawned task.
InsideEstablish == pc \in {"start", "await"}
TaskStepTaken == \E k \in Attempts : tpc'[k] # tpc[k] \/ log'[k] # log[k]

\* The map changes only in the caller's step after establish_handshake has
\* returned, and then by record_handshake for the attempted address.
LedgerFrame ==
    /\ (InsideEstablish \/ TaskStepTaken) => statuses' = statuses
    /\ statuses' # statuses =>
         /\ pc = "handle"
         /\ \E status \in BOOLEAN :
              statuses' = record_handshake(statuses, seeds[i], status)

\* C23: neither establish_handshake nor the spawned task touches the map of
\* statuses: it is the same at the return of every call as at its start, and
\* only the caller's record_handshake changes it.
C23_LedgerOnlyByCaller == [][LedgerFrame]_vars

\* establish_handshake has returned to `run` on a manager whose map is as it
\* was before the call.
C23_Witness ==
    /\ driver = "run"
    /\ pc = "handle"
    /\ outcome[1].tag # "None"
    /\ \A a \in Addrs : statuses[a].tag = "None"


\* `run` was given a seed index outside the table.
SeedIndexOutOfRange ==
    /\ cli.pc # "idle"
    /\ cli.command \in {"-r", "-hbi"}
    /\ cli.arguments[1].kind = "number"
    /\ cli.arguments[1].n >= Len(DEFAULT_DNS_SEEDS)

\* C24: with a seed index out of range `-r` and `-hbi` make run return a
\* ConfigError: no lookup is started, no handshake is attempted, nothing is
\* recorded and the program does not panic.
C24_BadSeedIndexIsError ==
    (SeedIndexOutOfRange /\ cli.pc # "start") =>
        /\ cli.pc = "done"
        /\ cli.ret.tag = "Err"
        /\ cli.ret.val[1] = "ConfigError"
        /\ cli.answer.tag = "None"
        /\ cli.remote.tag = "None"
        /\ \A a \in Addrs : statuses[a].tag = "None"


\* establish_handshake returns for attempt k in this step.
Returns(k) == outcome[k].tag = "None" /\ outcome'[k].tag # "None"

\* What establish_handshake makes of the result of a task that finished.
OwnOutcome(k, r) ==
    IF result[k].tag = "Ok"
    THEN r.tag = "Ok" /\ r.val = result[k].val
    ELSE r.tag = "Err" /\ r.val = ExchangeError(result[k].val).val

\* A call returns the result of its task when the task has finished by then,
\* and the timed-out error only with the task unfinished and the budget used up.
TimeoutOnlyWhenElapsed ==
    \A k \in Attempts :
        Returns(k) =>
            /\ TaskDone(k) => OwnOutcome(k, outcome'[k])
            /\ IsTimedOut(outcome'[k]) =>
                 /\ ~TaskDone(k)
                 /\ elapsed + TickMs >= DefaultTimeoutMs

\* C25: when the handshake work ends before the budget has elapsed,
\* establish_handshake returns the outcome of the work, never the timed-out
\* error.
C25_TimeoutOnlyWhenElapsed == [][TimeoutOnlyWhenElapsed]_vars

\* The first call returned the failure of its task and the second the
\* success of its task.
C25_Witness ==
    /\ result[1].tag = "Err"
    /\ outcome[1].tag = "Err"
    /\ ~IsTimedOut(outcome[1])
    /\ IsOkTrue(result[2])
    /\ IsOkTrue(outcome[2])


\* The entries of the map.
Entries == {a \in Addrs : statuses[a].tag # "None"}

\* C26: `run` (-hbi, -hbu) writes exactly one entry per concluded attempt,
\* for the attempted address, and its value is true exactly when
\* establish_handshake returned Ok(true); a timeout, a failed join and a
\* failed message exchange are all recorded as false.
C26_OneEntryPerAttempt ==
    driver = "run" =>
        /\ pc # "done" => Entries = {}
        /\ pc = "done" =>
             /\ Entries = {seeds[1]}
             /\ statuses[seeds[1]].val = IsOkTrue(outcome[1])
             /\ outcome[1].tag = "Err" => statuses[seeds[1]].val = FALSE
        /\ RecordedStatus(EstablishResult(Ok(Err("JoinError")))) = FALSE

\* `run` is done after a timed-out attempt, recorded as false.
C26_Witness ==
    /\ driver = "run"
    /\ pc = "done"
    /\ IsTimedOut(outcome[1])
    /\ statuses[seeds[1]].tag = "Ok"
    /\ statuses[seeds[1]].val = FALSE


\* The four message steps of the handshake, after the connection.
AllFourSteps(k) ==
    /\ log[k] = HandshakeOrder
    /\ sent[k] = <<"version", "verack">>
    /\ Len(rx[k]) = 2
    /\ rx[k][1].ok /\ rx[k][1].payload = "Version"
    /\ rx[k][2].ok /\ rx[k][2].payload = "Verack"

====
